---- MODULE Spec2Model ----
(***************************************************************************)
(* Model of the haymaker Maya pipeline toolkit: the batch splitter and the *)
(* animation publisher (publisher.py), the managed-subprocess launcher     *)
(* (app_exe.py, maya.py) and the formula resolver (formula_manager.py).    *)
(*                                                                         *)
(* Python strings are sequences of one-character strings; Python lists are *)
(* sequences; None is the model value None.                                *)
(***************************************************************************)
EXTENDS Integers, Sequences, FiniteSets, TLC

VARIABLES
    split,      \* the frame of one split_into_batches generator
    repo,       \* the loaded FormulaRepo: formulas and formula_prefixes
    fcall,      \* the last FormulaRepo.eval call and its outcome
    procs,      \* every Process object created, in creation order
    PROCESSES,  \* AppExecuter.PROCESSES: indexes into procs
    files,      \* the temporary files created so far (index = file name)
    calls,      \* the on_finish invocations made so far
    notifications, \* the system notifications sent so far
    ret,        \* what the last run() call returned or raised
    pub,        \* the frame of one publish_animations call
    ver,        \* versioning (utils.py): the scene, its directory, the last call
    menu,       \* the menus of Maya's main window (menu.py)
    bg          \* one animation publish: files on disk and the batch scene

vars == <<split, repo, fcall, procs, PROCESSES, files, calls, notifications,
          ret, pub, ver, menu, bg>>
otherVars == <<ver, menu, bg>>
splitVars == <<split>>
formulaVars == <<repo, fcall>>
procVars == <<procs, PROCESSES, files, calls, notifications, ret, pub>>

None == "None"

\* ------------------------------------------------------------------ bounds
MaxItems == 6           \* longest list handed to split_into_batches
MaxSplitBatches == 4    \* largest max_batches handed to split_into_batches
MaxPieces == 2          \* pieces (tokens, literals, bars) in the formula under test
MaxProcs == 2           \* run() calls made directly on executers
MaxPaths == 2           \* longest list handed to publish_animations
MaxPubBatches == 1      \* largest max_batches handed to publish_animations
MaxDepth == 6           \* Python frames before RecursionError (recursion limit)
MaxMayaProcs == 1       \* mayabatch processes alive when run() is studied alone
MaxVersionCalls == 2    \* version_file calls on one scene
MaxMenuCalls == 2       \* create_menu calls in one Maya session
MaxPublishCalls == 2    \* publish_animation calls on one scene
MaxRefs == 2            \* reference nodes in the scene being published
MaxSegments == 3        \* dot-separated segments of a path handed to increment_version_path

\* ----------------------------------------------------------------- helpers
Min(a, b) == IF a <= b THEN a ELSE b

\* items[lo:hi] of Python, 0-based, clamped to the list (lo, hi >= 0)
Slice(s, lo, hi) == SubSeq(s, Min(lo, Len(s)) + 1, Min(hi, Len(s)))

\* math.ceil(n / m) and int(n / m) for n >= 0, m >= 1
ceil(n, m) == (n + m - 1) \div m
int(n, m) == n \div m

RECURSIVE Concat(_)
Concat(ss) == IF ss = <<>> THEN <<>> ELSE Head(ss) \o Concat(Tail(ss))

\* all sequences over S of length at most n
SeqsUpTo(S, n) == UNION {[1..k -> S] : k \in 0..n}

\* ------------------------------------------------------ split_into_batches
\* publisher.py:37-62.  The generator is stepped one yield at a time.
SplitItemValues == {"a", "b"}

SplitIdle ==
    [pc |-> "idle", items |-> <<>>, max_batches |-> 1, k |-> 0,
     big_batch |-> 0, small_batch |-> 0, i |-> 0, batches_left |-> 0,
     yielded |-> <<>>]

SplitCalled(items, max_batches) ==
    [SplitIdle EXCEPT !.pc = "entry", !.items = items,
                      !.max_batches = max_batches]

\* line 58-59: which size the next batch gets
use_small_batches_gt(f) ==
    (f.batches_left * f.small_batch) > Len(f.items) - f.i

use_small_batches(f) ==
    (f.batches_left * f.small_batch) >= Len(f.items) - f.i

next_batch_size_big(f) == f.big_batch

next_batch_size(f) ==
    IF use_small_batches(f) THEN f.small_batch ELSE f.big_batch

\* lines 44, 52-56: the branch taken on the first next()
SplitEnter ==
    /\ split.pc = "entry"
    /\ IF Len(split.items) <= split.max_batches
         THEN split' = [split EXCEPT !.pc = "each_item", !.k = 0]
         ELSE split' = [split EXCEPT
                 !.pc = "loop",
                 !.big_batch = ceil(Len(split.items), split.max_batches),
                 !.small_batch = int(Len(split.items), split.max_batches),
                 !.i = 0,
                 !.batches_left = split.max_batches]
    /\ UNCHANGED <<otherVars, formulaVars, procVars>>

\* lines 45-46: one batch per item
SplitYieldItem ==
    /\ split.pc = "each_item"
    /\ split.k < Len(split.items)
    /\ split' = [split EXCEPT
            !.yielded = Append(@, <<split.items[split.k + 1]>>),
            !.k = @ + 1]
    /\ UNCHANGED <<otherVars, formulaVars, procVars>>

\* line 47
SplitReturnEarly ==
    /\ split.pc = "each_item"
    /\ split.k >= Len(split.items)
    /\ split' = [split EXCEPT !.pc = "done"]
    /\ UNCHANGED <<otherVars, formulaVars, procVars>>

\* lines 57-62: one turn of the while loop
SplitYieldBatch ==
    /\ split.pc = "loop"
    /\ split.batches_left # 0
    /\ LET batch_size == next_batch_size(split)
       IN split' = [split EXCEPT
               !.yielded = Append(@, Slice(split.items, split.i,
                                           split.i + batch_size)),
               !.batches_left = @ - 1,
               !.i = @ + batch_size]
    /\ UNCHANGED <<otherVars, formulaVars, procVars>>

\* line 57: the loop condition fails, the generator is exhausted
SplitReturn ==
    /\ split.pc = "loop"
    /\ split.batches_left = 0
    /\ split' = [split EXCEPT !.pc = "done"]
    /\ UNCHANGED <<otherVars, formulaVars, procVars>>


\* ------------------------------------------------------ app_exe.py, maya.py
\* Strings that are only passed around are TLA+ strings; captured output is
\* a sequence of lines.

ProcessResult(name, cmd, args, result, errors) ==
    [name |-> name, cmd |-> cmd, args |-> args, result |-> result,
     errors |-> errors]

\* A Process (or MayaProcess) object with the OS process behind its _obj:
\* os is "none" before start, "running", "exited" once the subprocess has
\* ended, "dead" when it failed to start; out, err and raised are what the
\* subprocess wrote to stdout and stderr and whether the Python command run
\* by mayabatch raised; emitted is whether Qt has emitted finished().
NewProcess(cls, name, exe, args, on_finish, path_errors, path_py) ==
    [cls |-> cls, name |-> name, exe |-> exe, args |-> args,
     on_finish |-> on_finish, path_errors |-> path_errors, path_py |-> path_py,
     is_finished |-> FALSE,
     results |-> <<>>,
     os |-> "none", started |-> FALSE, out |-> <<>>, err |-> <<>>,
     raised |-> FALSE, emitted |-> FALSE]

\* the three things the model carries through a call
World(ps, registry, fs) == [procs |-> ps, PROCESSES |-> registry, files |-> fs]

\* Process.run (app_exe.py:83-99): start, connect finished, report started
Process_run(p, starts) ==
    [p EXCEPT !.os = IF starts THEN "running" ELSE "dead",
              !.started = starts]

\* Process._get_result (lines 104-107)
Process_get_result(p, fs) ==
    [results |-> <<p.out, p.err>>, files |-> fs]

MayaProcess_get_result_override(p, fs) ==
    [results |-> <<p.out, fs[p.path_errors].content>>,
     files |-> [fs EXCEPT ![p.path_errors].exists = FALSE]]

\* MayaProcess._get_result (maya.py:349-359): stderr, then the error file,
\* which is removed
MayaProcess_get_result(p, fs) ==
    [results |-> <<Process_get_result(p, fs).results[1],
                   Process_get_result(p, fs).results[2]
                        \o fs[p.path_errors].content>>,
     files |-> [fs EXCEPT ![p.path_errors].exists = FALSE]]

get_result(p, fs) ==
    IF p.cls = "MayaProcess" THEN MayaProcess_get_result(p, fs)
                             ELSE Process_get_result(p, fs)

\* notify_system (app_exe.py:39-50)
notify_system(process) ==
    [title |-> process.name,
     message |-> IF process.errors # <<>> THEN "Failure" ELSE "Success!",
     icon |-> IF process.errors # <<>> THEN "FAILURE" ELSE "SUCCESS"]

\* one invocation of on_finish: the process it belongs to, the is_finished
\* the process shows at that moment, and the ProcessResult handed over
Invocation(id, p, result) ==
    [proc |-> id, on_finish |-> p.on_finish, is_finished |-> p.is_finished,
     result |-> result]

finish_callback_first(id, p, fs) ==
    LET r == get_result(p, fs)
        result == ProcessResult(p.name, p.exe, p.args, r.results[1], r.results[2])
    IN [proc |-> [p EXCEPT !.is_finished = TRUE, !.results = r.results],
        files |-> r.files,
        calls |-> IF p.on_finish = None THEN <<>>
                  ELSE <<Invocation(id, p, result)>>]

\* Process.finish (app_exe.py:109-129)
finish(id, p, fs) ==
    LET p1 == [p EXCEPT !.is_finished = TRUE]
        r == get_result(p1, fs)
        p2 == [p1 EXCEPT !.results = r.results]
        result == ProcessResult(p2.name, p2.exe, p2.args, r.results[1], r.results[2])
    IN [proc |-> p2,
        files |-> r.files,
        calls |-> IF p2.on_finish = None THEN <<>>
                  ELSE <<Invocation(id, p2, result)>>]

\* an executer object: AppExecuter.__init__ (lines 142-147) and
\* MayabatchExecuter.__init__ (maya.py:371-373)
Executer(cls, name, name_exe, path_exe) ==
    [cls |-> cls, NAME |-> name, NAME_EXE |-> name_exe, path_exe |-> path_exe,
     path_errors |-> 0]

MayabatchFallback == "C:/Program Files/Autodesk/Maya2023/bin/mayabatch.exe"

\* _get_exe_path (app_exe.py:149-160, maya.py:375-381): shutil.which, and
\* for mayabatch the hard-coded path when the exe is not on PATH
get_exe_path(exe, env) ==
    IF env.on_path THEN exe.NAME_EXE
    ELSE IF exe.cls = "MayabatchExecuter" THEN MayabatchFallback
    ELSE None

\* AppExecuter.validate (lines 167-180): the executer with its path_exe
\* filled in, and TRUE, FALSE or the exception os.path.isfile(None) raises
validate(exe, env) ==
    IF exe.path_exe # None THEN [exe |-> exe, valid |-> "True"]
    ELSE LET path == get_exe_path(exe, env)
         IN [exe |-> [exe EXCEPT !.path_exe = path],
             valid |-> IF path = None THEN "TypeError"
                       ELSE IF env.on_path \/ env.fallback_exists THEN "True"
                       ELSE "False"]

\* lines 199-202: the positional args, then -key value for every kwarg
RECURSIVE args_with_kwargs(_, _)
args_with_kwargs(args, kwargs) ==
    IF kwargs = <<>> THEN args
    ELSE args_with_kwargs(args \o << <<"-", Head(kwargs)[1]>>, Head(kwargs)[2] >>,
                          Tail(kwargs))

\* _create_process (app_exe.py:162-165, maya.py:383-385)
create_process_single(w, exe, args, on_finish) ==
    IF exe.cls = "MayabatchExecuter"
      THEN [w EXCEPT !.procs =
                <<NewProcess("MayaProcess", exe.NAME, exe.path_exe, args, on_finish,
                             exe.path_errors, exe.path_errors + 1)>>]
      ELSE [w EXCEPT !.procs =
                <<NewProcess("Process", exe.NAME, exe.path_exe, args, on_finish, 0, 0)>>,
                     !.PROCESSES = <<1>>]

create_process(w, exe, args, on_finish) ==
    IF exe.cls = "MayabatchExecuter"
      THEN [w EXCEPT !.procs = Append(@,
                NewProcess("MayaProcess", exe.NAME, exe.path_exe, args, on_finish,
                           exe.path_errors, exe.path_errors + 1))]
      ELSE [w EXCEPT !.procs = Append(@,
                NewProcess("Process", exe.NAME, exe.path_exe, args, on_finish, 0, 0)),
                     !.PROCESSES = Append(@, Len(w.procs) + 1)]

RetNone == [t |-> "None"]
RetRaise(e) == [t |-> "raise", exc |-> e]
RetTuple(process, started) == [t |-> "tuple", process |-> process, started |-> started]

\* AppExecuter.run (app_exe.py:182-210): the world after the call and what
\* the call returns
AppExecuter_run(w, exe, on_finish, args, kwargs, env) ==
    LET v == validate(exe, env)
    IN IF v.valid = "TypeError" THEN [w |-> w, ret |-> RetRaise("TypeError")]
       ELSE IF v.valid = "False" THEN [w |-> w, ret |-> RetNone]
       ELSE LET w1 == create_process(w, v.exe, args_with_kwargs(args, kwargs), on_finish)
                id == Len(w1.procs)
                w2 == [w1 EXCEPT !.procs[id] = Process_run(@, env.starts)]
            IN [w |-> w2, ret |-> RetTuple(id, w2.procs[id].started)]

\* tempfile.NamedTemporaryFile(delete=False): the next unused name
TempFile(kind, content) == [kind |-> kind, exists |-> TRUE, content |-> content]

remove_if_file(fs, path) == [fs EXCEPT ![path].exists = FALSE]

Traceback == <<"Traceback">>

\* the truth value of path_maya_file (maya.py:411, 449): None and '' are false
truthy_path(path_maya_file) == path_maya_file # None /\ path_maya_file # ""

MayabatchExecuter_run_keep_tuple(w, exe, on_finish, path_maya_file, command, func, args, kwargs, env) ==
    IF truthy_path(path_maya_file) /\ ~env.maya_file_exists
      THEN [w |-> w, ret |-> RetNone]
    ELSE IF path_maya_file = None
      THEN [w |-> w, ret |-> RetRaise("AttributeError")]
    ELSE LET command1 == IF func # <<>> THEN <<"from", func[1], "import", func[2]>>
                         ELSE command
         IN IF command1 = <<>> THEN [w |-> w, ret |-> RetNone]
    ELSE LET path_errors == Len(w.files) + 1
             path_py == Len(w.files) + 2
             w1 == [w EXCEPT !.files = @ \o << TempFile("errors", <<>>),
                                               TempFile("py", command1) >>]
             exe1 == [exe EXCEPT !.path_errors = path_errors]
             mel == <<"python exec open", path_py>>
             r == AppExecuter_run(w1, exe1, on_finish, args \o kwargs,
                                  IF truthy_path(path_maya_file)
                                    THEN << <<"file", path_maya_file>>,
                                            <<"command", mel>> >>
                                    ELSE << <<"command", mel>> >>,
                                  env)
         IN \* lines 450, 453: an extra positional argument lands on
            \* on_finish, which is also passed by keyword
            IF args \o kwargs # <<>> THEN [w |-> w1, ret |-> RetRaise("TypeError")]
            ELSE IF r.ret.t = "raise" THEN r
            ELSE IF r.ret.t = "None" THEN [w |-> r.w, ret |-> RetRaise("TypeError")]
            ELSE r

\* MayabatchExecuter.run (maya.py:387-463).  command is the Python source as
\* a sequence of words, <<>> when none is given, as is func; args are the
\* extra positional arguments and kwargs the names of the extra keyword
\* arguments, which line 450 passes on as positionals (*kwargs)
MayabatchExecuter_run(w, exe, on_finish, path_maya_file, command, func, args, kwargs, env) ==
    IF truthy_path(path_maya_file) /\ ~env.maya_file_exists
      THEN [w |-> w, ret |-> RetNone]
    ELSE IF path_maya_file = None
      THEN [w |-> w, ret |-> RetRaise("AttributeError")]
    ELSE LET command1 == IF func # <<>> THEN <<"from", func[1], "import", func[2]>>
                         ELSE command
         IN IF command1 = <<>> THEN [w |-> w, ret |-> RetNone]
    ELSE LET path_errors == Len(w.files) + 1
             path_py == Len(w.files) + 2
             w1 == [w EXCEPT !.files = @ \o << TempFile("errors", <<>>),
                                               TempFile("py", command1) >>]
             exe1 == [exe EXCEPT !.path_errors = path_errors]
             mel == <<"python exec open", path_py>>
             r == AppExecuter_run(w1, exe1, on_finish, args \o kwargs,
                                  IF truthy_path(path_maya_file)
                                    THEN << <<"file", path_maya_file>>,
                                            <<"command", mel>> >>
                                    ELSE << <<"command", mel>> >>,
                                  env)
         IN \* lines 450, 453: an extra positional argument lands on
            \* on_finish, which is also passed by keyword
            IF args \o kwargs # <<>> THEN [w |-> w1, ret |-> RetRaise("TypeError")]
            ELSE IF r.ret.t = "raise" THEN r
            ELSE IF r.ret.t = "None" THEN [w |-> r.w, ret |-> RetRaise("TypeError")]
            ELSE IF ~r.ret.started
              THEN [w |-> [r.w EXCEPT !.files =
                              remove_if_file(remove_if_file(@, path_py), path_errors)],
                    ret |-> RetNone]
            ELSE r

\* ---- the subprocess and the Qt event loop

\* what a subprocess can have written when it ends: stdout, stderr, and for
\* mayabatch whether the Python command raised
ExitChoices(p) ==
    IF p.cls = "MayaProcess"
      THEN {[out |-> <<"out">>, err |-> e, raised |-> x] :
                e \in {<<>>, <<"err">>}, x \in BOOLEAN}
      ELSE {[out |-> <<"out">>, err |-> <<>>, raised |-> FALSE],
            [out |-> <<>>, err |-> <<"err">>, raised |-> FALSE]}

\* the script MayabatchExecuter.run writes (maya.py:434-444), run by
\* mayabatch: the traceback goes to the error file, the script removes itself
script_effects(p, x, fs) ==
    IF p.cls # "MayaProcess" THEN fs
    ELSE [fs EXCEPT ![p.path_errors].content =
                        IF x.raised THEN Traceback ELSE @,
                    ![p.path_py].exists = FALSE]

\* the OS process behind a started Process ends
ProcessExit ==
    \E id \in 1..Len(procs) :
    /\ procs[id].os = "running"
    /\ \E x \in ExitChoices(procs[id]) :
        /\ procs' = [procs EXCEPT ![id].os = "exited", ![id].out = x.out,
                                  ![id].err = x.err, ![id].raised = x.raised]
        /\ files' = script_effects(procs[id], x, files)
    /\ UNCHANGED <<otherVars, PROCESSES, calls, notifications, ret, pub, splitVars, formulaVars>>

\* Qt emits finished() of the _obj of an ended Process, once, and the
\* connected Process.finish runs (app_exe.py:92, 109-129)
Finish ==
    \E id \in 1..Len(procs) :
    /\ procs[id].os = "exited"
    /\ ~procs[id].emitted
    /\ LET f == finish(id, [procs[id] EXCEPT !.emitted = TRUE], files)
       IN /\ procs' = [procs EXCEPT ![id] = f.proc]
          /\ files' = f.files
          /\ calls' = calls \o f.calls
          /\ notifications' =
                IF f.calls # <<>> /\ f.calls[1].on_finish = "notify_system"
                  THEN Append(notifications,
                              [proc |-> id] @@ notify_system(f.calls[1].result))
                  ELSE notifications
    /\ UNCHANGED <<otherVars, PROCESSES, ret, pub, splitVars, formulaVars>>

\* the environment of one run(): is the exe on PATH, does mayabatch's
\* hard-coded path exist, does the given Maya file exist, does the OS start
\* the process
Envs ==
    [on_path : BOOLEAN, fallback_exists : BOOLEAN, maya_file_exists : BOOLEAN,
     starts : BOOLEAN]

TheWorld == World(procs, PROCESSES, files)

SetWorld(r) ==
    /\ procs' = r.w.procs
    /\ PROCESSES' = r.w.PROCESSES
    /\ files' = r.w.files
    /\ ret' = r.ret

\* AppExecuter('App', 'app.exe').run(on_finish, *args, **kwargs)
AppRun ==
    /\ Len(procs) < MaxProcs
    /\ \E a \in { [on_finish |-> None, args |-> <<>>, kwargs |-> <<>>],
                  [on_finish |-> "callback", args |-> <<"a">>,
                   kwargs |-> << <<"k", "v">> >>] },
          env \in Envs :
            /\ env.fallback_exists /\ env.maya_file_exists
            /\ SetWorld(AppExecuter_run(TheWorld,
                            Executer("AppExecuter", "App", "app.exe", None),
                            a.on_finish, a.args, a.kwargs, env))
    /\ UNCHANGED <<otherVars, calls, notifications, pub, splitVars, formulaVars>>

\* MayabatchExecuter('Task').run(path_maya_file=..., command=..., func=...)
\* with the default on_finish=notify_system
MayaRun ==
    /\ Len(procs) < MaxProcs
    /\ Len(files) < 2 * MaxProcs
    /\ \E path_maya_file \in {None, "scene.ma"},
          c \in { [command |-> <<>>, func |-> <<>>],
                  [command |-> <<"cmd">>, func |-> <<>>],
                  [command |-> <<>>, func |-> <<"utils", "func">>] },
          env \in Envs :
            \* the environment is read only as far as the call gets
            /\ (path_maya_file = None \/ ~env.maya_file_exists
                    \/ (c.command = <<>> /\ c.func = <<>>))
                 => (env.on_path /\ env.fallback_exists /\ env.starts)
            /\ path_maya_file = None => env.maya_file_exists
            /\ env.on_path => env.fallback_exists
            /\ SetWorld(MayabatchExecuter_run(TheWorld,
                        Executer("MayabatchExecuter", "Task", "mayabatch.exe", None),
                        "notify_system", path_maya_file, c.command, c.func,
                        <<>>, <<>>, env))
    /\ UNCHANGED <<otherVars, calls, notifications, pub, splitVars, formulaVars>>

\* the last call as the claims about run() itself need it: the Maya file and
\* the command it was given, and the temporary files it created
LastCall(path_maya_file, c, fs, fs1) ==
    [path_maya_file |-> path_maya_file,
     has_command |-> c.command # <<>> \/ c.func # <<>>,
     made |-> (Len(fs) + 1)..Len(fs1)]

\* the same run() with every kind of path_maya_file (the default None, '',
\* a path), the call kept next to what it returned
MayaCall ==
    /\ Len(procs) < MaxMayaProcs
    /\ Len(files) < 2 * MaxMayaProcs
    /\ \E path_maya_file \in {None, "", "scene.ma"},
          c \in { [command |-> <<>>, func |-> <<>>],
                  [command |-> <<"cmd">>, func |-> <<>>],
                  [command |-> <<>>, func |-> <<"utils", "func">>] },
          on_finish \in {"notify_system", None},
          args \in {<<>>, <<"-prompt">>},
          env \in Envs :
            /\ (path_maya_file = None \/ ~env.maya_file_exists
                    \/ (c.command = <<>> /\ c.func = <<>>))
                 => (env.on_path /\ env.fallback_exists /\ env.starts)
            /\ ~truthy_path(path_maya_file) => env.maya_file_exists
            /\ env.on_path => env.fallback_exists
            /\ args # <<>> => (env.on_path /\ env.starts)
            /\ LET r == MayabatchExecuter_run(TheWorld,
                        Executer("MayabatchExecuter", "Task", "mayabatch.exe", None),
                        on_finish, path_maya_file, c.command, c.func,
                        args, <<>>, env)
               IN /\ procs' = r.w.procs
                  /\ PROCESSES' = r.w.PROCESSES
                  /\ files' = r.w.files
                  /\ ret' = [call |-> LastCall(path_maya_file, c, files, r.w.files)]
                                @@ r.ret
    /\ UNCHANGED <<otherVars, calls, notifications, pub, splitVars, formulaVars>>

\* ------------------------------------------------- publish_animations
DefaultMaxBatches == 3

\* launched[n] is the Process object made for paths[n] (0 for an empty path)
PubIdle ==
    [pc |-> "idle", paths |-> <<>>, max_batches |-> DefaultMaxBatches, n |-> 0,
     success |-> <<>>, fail |-> <<>>, launched |-> <<>>]

PubCalled(paths, max_batches) ==
    [PubIdle EXCEPT !.pc = "loop", !.paths = paths, !.max_batches = max_batches]

\* nothing has been called yet in utils.py, menu.py and the batch publish
VerIdle == [pc |-> "idle"]
MenuIdle == [pc |-> "idle"]
BgIdle == [pc |-> "idle"]
OtherIdle ==
    /\ ver = VerIdle
    /\ menu = MenuIdle
    /\ bg = BgIdle

ProcIdle ==
    /\ procs = <<>>
    /\ PROCESSES = <<>>
    /\ files = <<>>
    /\ calls = <<>>
    /\ notifications = <<>>
    /\ ret = RetNone
    /\ pub = PubIdle

\* publish_animation(path_work) for a given work file (publisher.py:92-162):
\* the temporary copy, then MayabatchExecuter('Publish - Animation').run on
\* the copy; what the call returns is bool(process)
publish_animation(w, path_work, env) ==
    LET path_copy == Len(w.files) + 1
        w1 == [w EXCEPT !.files = Append(@, TempFile("ma", <<path_work>>))]
        py_cmd == <<"_bg_publish_animation", path_work>>
    IN MayabatchExecuter_run(w1,
            Executer("MayabatchExecuter", "Publish - Animation", "mayabatch.exe", None),
            "notify_system", <<"tmp", path_copy>>, py_cmd, <<>>, <<>>, <<>>, env)

\* bool(process) (line 162)
bool(r) == r.t # "None"

\* one turn of the loop of publish_animations (publisher.py:82-88)
PublishStep ==
    /\ pub.pc = "loop"
    /\ pub.n < Len(pub.paths)
    /\ LET path == pub.paths[pub.n + 1]
       IN IF path = ""
            THEN /\ pub' = [pub EXCEPT !.n = @ + 1, !.launched = Append(@, 0)]
                 /\ UNCHANGED <<procs, PROCESSES, files, ret>>
            ELSE \E env \in Envs :
                    /\ env.maya_file_exists
                    /\ env.on_path => env.fallback_exists
                    /\ LET r == publish_animation(TheWorld, path, env)
                       IN /\ SetWorld(r)
                          /\ pub' =
                               IF r.ret.t = "raise"
                                 THEN [pub EXCEPT !.pc = "raised"]
                               ELSE IF bool(r.ret)
                                 THEN [pub EXCEPT !.n = @ + 1,
                                         !.success = Append(@, path),
                                         !.launched = Append(@, Len(r.w.procs))]
                               ELSE [pub EXCEPT !.n = @ + 1,
                                         !.fail = Append(@, path),
                                         !.launched = Append(@, Len(r.w.procs))]
    /\ UNCHANGED <<otherVars, calls, notifications, splitVars, formulaVars>>

\* line 89: return success, fail
PublishReturn ==
    /\ pub.pc = "loop"
    /\ pub.n >= Len(pub.paths)
    /\ pub' = [pub EXCEPT !.pc = "returned"]
    /\ UNCHANGED <<otherVars, procs, PROCESSES, files, calls, notifications, ret, splitVars, formulaVars>>

\* ------------------------------------------------------- formula_manager.py
\* Python values: None, str (a sequence of characters), an Enum member.
PyNone == [t |-> "None"]
PyStr(s) == [t |-> "str", v |-> s]
PyEnum(m) == [t |-> "enum", v |-> m]

\* truth value of a Python value (None and '' are falsy)
Truthy(x) == x.t # "None" /\ (x.t = "str" => x.v # <<>>)

UpperChars == <<"A","B","C","D","E","F","G","H","I","J","K","L","M","N","O","P","Q","R","S","T","U","V","W","X","Y","Z">>
LowerChars == <<"a","b","c","d","e","f","g","h","i","j","k","l","m","n","o","p","q","r","s","t","u","v","w","x","y","z">>

lower_identity(s) == s

\* str.lower()
lower(s) ==
    [n \in 1..Len(s) |->
        IF \E k \in 1..Len(UpperChars) : UpperChars[k] = s[n]
          THEN LowerChars[CHOOSE k \in 1..Len(UpperChars) : UpperChars[k] = s[n]]
          ELSE s[n]]

\* s.startswith(prefix) and s[n:]
startswith(s, prefix) ==
    Len(prefix) <= Len(s) /\ SubSeq(s, 1, Len(prefix)) = prefix
DropChars(s, n) == SubSeq(s, Min(n, Len(s)) + 1, Len(s))

\* class Drive(ReservedVariable), class Disk(ReservedVariable): the members
\* in definition order (formula_manager.py:90-98)
Drive == <<
    [name |-> <<"D","E","F","A","U","L","T">>, value |-> <<"d","r","i","v","e">>],
    [name |-> <<"B","O","X">>,
     value |-> <<"~","/","B","o","x","/","C","a","p","s","t","o","n","e","_","U","p","l","o","a","d","s">>] >>

Disk == <<
    [name |-> <<"D","E","F","A","U","L","T">>, value |-> <<"d","i","s","k">>],
    [name |-> <<"C","O","N","F","I","G">>,
     value |-> <<"|","d","r","i","v","e","|","/","1","3","_","T","e","c","h","/","c","o","n","f","i","g">>],
    [name |-> <<"C","O","D","E">>,
     value |-> <<"|","d","r","i","v","e","|","/","1","3","_","T","e","c","h","/","h","a","y","m","a","k","e","r">>] >>

RESERVED_KEYWORDS == <<Drive, Disk>>

\* what a call returns or raises; val is a Python value, log the resolutions
\* made so far (one entry per _resolve_variable call that returned or that
\* raised FormulaArgumentError)
Return(v, log) == [raised |-> FALSE, exc |-> "", val |-> v, log |-> log]
Raise(e, v, log) == [raised |-> TRUE, exc |-> e, val |-> v, log |-> log]

Resolution(variable, source, value) ==
    [variable |-> variable, source |-> source, value |-> value]

\* ReservedVariable.get_default (lines 64-68): the member after DEFAULT
get_default(cls) == cls[2]

\* kwargs[cls.DEFAULT.value].value (lines 75, 84): only an Enum member has
\* a .value attribute
override_value(cls, kwargs) ==
    LET o == kwargs[cls[1].value]
    IN IF o.t = "enum" THEN Return(PyStr(o.v.value), <<>>)
                       ELSE Raise("AttributeError", o, <<>>)

try_to_resolve_no_member_override(cls, value, kwargs) ==
    IF cls[1].value = value
      THEN IF cls[1].value \in DOMAIN kwargs
             THEN override_value(cls, kwargs)
             ELSE Return(PyStr(get_default(cls).value), <<>>)
      ELSE LET hits == {n \in 2..Len(cls) : lower(cls[n].name) = value}
           IN IF hits # {}
                THEN Return(PyStr(cls[CHOOSE n \in hits : \A m \in hits : n <= m].value), <<>>)
                ELSE Return(PyNone, <<>>)

\* ReservedVariable.try_to_resolve (lines 70-87)
try_to_resolve(cls, value, kwargs) ==
    IF cls[1].value = value
      THEN IF cls[1].value \in DOMAIN kwargs
             THEN override_value(cls, kwargs)
             ELSE Return(PyStr(get_default(cls).value), <<>>)
      ELSE LET hits == {n \in 2..Len(cls) : lower(cls[n].name) = value}
           IN IF hits # {}
                THEN IF cls[1].value \in DOMAIN kwargs
                       THEN override_value(cls, kwargs)
                       ELSE Return(PyStr(cls[CHOOSE n \in hits : \A m \in hits : n <= m].value), <<>>)
                ELSE Return(PyNone, <<>>)

\* FormulaRepo._remove_prefix (lines 241-245)
RECURSIVE remove_prefix_from(_, _, _)
remove_prefix_from(prefixes, n, s) ==
    IF n > Len(prefixes) THEN s
    ELSE IF startswith(s, prefixes[n]) THEN DropChars(s, Len(prefixes[n]) + 1)
    ELSE remove_prefix_from(prefixes, n + 1, s)

remove_prefix(r, s) == remove_prefix_from(r.formula_prefixes, 1, s)

\* FormulaRepo.get_formula (lines 182-190)
get_formula(r, formula_name) ==
    IF remove_prefix(r, formula_name) \in DOMAIN r.formulas
      THEN PyStr(r.formulas[remove_prefix(r, formula_name)])
      ELSE PyNone

\* lines 224-226: the first reserved keyword that resolves to a truthy value
RECURSIVE resolve_keywords(_, _, _)
resolve_keywords(n, variable, kwargs) ==
    IF n > Len(RESERVED_KEYWORDS) THEN Return(PyNone, <<>>)
    ELSE LET value == try_to_resolve(RESERVED_KEYWORDS[n], variable, kwargs)
         IN IF value.raised \/ Truthy(value.val) THEN value
            ELSE resolve_keywords(n + 1, variable, kwargs)

\* line 233: the walrus test of the looked-up formula
formula_found(formula) == Truthy(formula)

RECURSIVE eval_(_, _, _, _, _)
RECURSIVE eval_chars(_, _, _, _, _, _, _, _, _)
RECURSIVE resolve_variable(_, _, _, _, _)

\* FormulaRepo._resolve_variable (lines 222-239); depth counts Python frames
resolve_variable(r, variable, kwargs, depth, log) ==
    IF depth > MaxDepth THEN Raise("RecursionError", PyNone, log)
    ELSE
    LET keyword == resolve_keywords(1, variable, kwargs)
    IN IF keyword.raised THEN Raise(keyword.exc, keyword.val, log)
       ELSE IF Truthy(keyword.val)
         THEN Return(keyword.val,
                     Append(log, Resolution(variable, "reserved", keyword.val)))
       ELSE IF variable \in DOMAIN kwargs
         THEN Return(kwargs[variable],
                     Append(log, Resolution(variable, "kwargs", kwargs[variable])))
       ELSE LET formula == get_formula(r, variable)
            IN IF formula_found(formula)
                 THEN LET value == eval_(r, formula, kwargs, depth + 1, log)
                      IN IF value.raised THEN value
                         ELSE Return(value.val,
                                     Append(value.log,
                                            Resolution(variable, "formulas", value.val)))
                 ELSE Raise("FormulaArgumentError", PyStr(variable),
                            Append(log, Resolution(variable, "unknown", PyNone)))

\* the same loop with the resolved variable appended as it is
eval_chars_no_reeval(r, formula, n, resolved, in_variable, variable, kwargs, depth, log) ==
    LET bars == {k \in n..Len(formula) : formula[k] = "|"}
    IN IF bars = {}
         THEN IF in_variable
                THEN Raise("FormulaEvaluationError", PyStr(formula), log)
                ELSE Return(PyStr(resolved \o SubSeq(formula, n, Len(formula))), log)
       ELSE LET bar == CHOOSE k \in bars : \A j \in bars : k <= j
                text == SubSeq(formula, n, bar - 1)
            IN IF ~in_variable
                 THEN eval_chars(r, formula, bar + 1, resolved \o text, TRUE, <<>>,
                                 kwargs, depth, log)
                 ELSE LET resolved_variable ==
                              resolve_variable(r, variable \o text, kwargs,
                                               depth + 1, log)
                      IN IF resolved_variable.raised THEN resolved_variable
                         ELSE IF resolved_variable.val.t # "str"
                           THEN Raise("TypeError", resolved_variable.val,
                                      resolved_variable.log)
                         ELSE eval_chars(r, formula, bar + 1,
                                         resolved \o resolved_variable.val.v,
                                         FALSE, <<>>, kwargs, depth,
                                         resolved_variable.log)

\* the for loop of FormulaRepo._eval (lines 196-220) from character n on.
\* The characters before the next '|' all take the same branch (lines
\* 212-216), so the loop is advanced over them in one step.
eval_chars(r, formula, n, resolved, in_variable, variable, kwargs, depth, log) ==
    LET bars == {k \in n..Len(formula) : formula[k] = "|"}
    IN IF bars = {}
         THEN IF in_variable
                THEN Raise("FormulaEvaluationError", PyStr(formula), log)
                ELSE Return(PyStr(resolved \o SubSeq(formula, n, Len(formula))), log)
       ELSE LET bar == CHOOSE k \in bars : \A j \in bars : k <= j
                text == SubSeq(formula, n, bar - 1)
            IN IF ~in_variable
                 THEN eval_chars(r, formula, bar + 1, resolved \o text, TRUE, <<>>,
                                 kwargs, depth, log)
                 ELSE LET resolved_variable ==
                              resolve_variable(r, variable \o text, kwargs,
                                               depth + 1, log)
                          value == eval_(r, resolved_variable.val, kwargs, depth + 1,
                                         resolved_variable.log)
                      IN IF resolved_variable.raised THEN resolved_variable
                         ELSE IF value.raised THEN value
                         ELSE eval_chars(r, formula, bar + 1,
                                         resolved \o value.val.v, FALSE, <<>>,
                                         kwargs, depth, value.log)

\* FormulaRepo._eval (lines 192-220); iterating a non-string raises TypeError
eval_(r, formula, kwargs, depth, log) ==
    IF depth > MaxDepth THEN Raise("RecursionError", PyNone, log)
    ELSE IF formula.t # "str" THEN Raise("TypeError", formula, log)
    ELSE eval_chars(r, formula.v, 1, <<>>, FALSE, <<>>, kwargs, depth, log)

\* FormulaRepo.eval (lines 130-152)
eval(r, formula_name, kwargs) ==
    IF remove_prefix(r, formula_name) \notin DOMAIN r.formulas
      THEN Raise("FormulaNotFoundError", PyStr(remove_prefix(r, formula_name)), <<>>)
      ELSE eval_(r, PyStr(r.formulas[remove_prefix(r, formula_name)]), kwargs, 1, <<>>)

\* ---- the inputs: formula repos as FormulaRepo.load builds them, eval calls
S_f == <<"f">>
S_g == <<"g">>
S_x == <<"x">>
S_u == <<"u">>
S_box == <<"b","o","x">>
S_drive == <<"d","r","i","v","e">>
S_disk == <<"d","i","s","k">>
S_config == <<"c","o","n","f","i","g">>
S_code == <<"c","o","d","e">>

Token(name) == <<"|">> \o name \o <<"|">>

\* what the formula under test is put together from
Pieces ==
    {Token(S_drive), Token(S_disk), Token(S_box), Token(S_code),
     Token(S_g), Token(S_x), Token(S_u), <<"/">>, <<"|">>}

FormulaBodies == {Concat(ps) : ps \in SeqsUpTo(Pieces, MaxPieces)}

\* the other formulas of the repo, with its formula_prefixes
RepoChoices ==
    { [formulas |-> <<>>, formula_prefixes |-> <<>>],
      [formulas |-> (S_g :> <<"G">>), formula_prefixes |-> <<>>],
      [formulas |-> (S_g :> <<>>), formula_prefixes |-> <<>>],
      [formulas |-> (S_g :> Token(S_f)), formula_prefixes |-> <<>>],
      [formulas |-> (S_g :> <<"G">>) @@ (S_x :> <<"X">>) @@ (S_box :> <<"B">>),
       formula_prefixes |-> << <<"p">> >>] }

RepoIdle == [formulas |-> <<>>, formula_prefixes |-> <<>>]
FcallIdle == [pc |-> "idle", formula_name |-> <<>>, kwargs |-> <<>>,
              outcome |-> Return(PyNone, <<>>)]

FormulaNames == {S_f, S_g, <<"p",".","f">>, S_u}

KwargsChoices ==
    { <<>>,
      (S_x :> PyStr(<<"K">>)),
      (S_x :> PyStr(<<"K">>)) @@ (S_box :> PyStr(<<"Q">>)),
      (S_x :> PyStr(Token(S_g))),
      (S_drive :> PyEnum(Disk[3])),
      (S_drive :> PyEnum(Drive[1])) @@ (S_disk :> PyEnum(Disk[3])),
      (S_disk :> PyEnum(Drive[2])) @@ (S_x :> PyStr(<<"|">>)),
      (S_drive :> PyStr(<<"D">>)) }

\* repo = FormulaRepo.load(path) (lines 154-180)
InitFormula ==
    /\ OtherIdle
    /\ split = SplitIdle
    /\ ProcIdle
    /\ fcall = FcallIdle
    /\ \E body \in FormulaBodies, others \in RepoChoices :
            repo = [others EXCEPT !.formulas = (S_f :> body) @@ @]

\* repo.eval(formula_name, **kwargs)
FormulaEval ==
    /\ fcall.pc = "idle"
    /\ \E formula_name \in FormulaNames, kwargs \in KwargsChoices :
        LET outcome == eval(repo, formula_name, kwargs)
        IN  fcall' = [pc |-> IF outcome.raised THEN "raised" ELSE "returned",
                     formula_name |-> formula_name,
                     kwargs |-> kwargs,
                     outcome |-> outcome]
    /\ UNCHANGED <<otherVars, repo, splitVars, procVars>>

NextFormula == FormulaEval

SpecFormula == InitFormula /\ [][NextFormula]_vars


\* ------------------------------------------------------- claims C4, C5, C6

ReservedNames == {S_drive, S_disk, S_box, S_config, S_code}
ResolutionLog == fcall.outcome.log

\* C4: every |variable| token is resolved in the order reserved keywords,
\* kwargs, formulas: a token with a reserved name is resolved as a reserved
\* keyword even when a kwarg or a formula has that name, a token naming a
\* kwarg (and no reserved keyword) resolves to the kwarg's value even when a
\* formula has that name, and the formulas (or the missing-argument error)
\* are reached only for names that are neither.
C4_ResolutionOrder ==
    /\ \A n \in 1..Len(ResolutionLog) :
        LET e == ResolutionLog[n]
        IN /\ e.variable \in ReservedNames => e.source = "reserved"
           /\ (e.variable \notin ReservedNames /\ e.variable \in DOMAIN fcall.kwargs)
                => /\ e.source = "kwargs"
                   /\ e.value = fcall.kwargs[e.variable]
           /\ e.source \in {"formulas", "unknown"}
                => /\ e.variable \notin ReservedNames
                   /\ e.variable \notin DOMAIN fcall.kwargs
    /\ (/\ fcall.pc # "idle"
        /\ fcall.formula_name = S_f
        /\ repo.formulas[S_f] = Token(S_box) \o Token(S_x)
        /\ S_x \in DOMAIN fcall.kwargs
        /\ fcall.kwargs[S_x] = PyStr(<<"K">>)
        /\ S_drive \notin DOMAIN fcall.kwargs)
         => fcall.outcome =
              Return(PyStr(Drive[2].value \o <<"K">>),
                     << Resolution(S_box, "reserved", PyStr(Drive[2].value)),
                        Resolution(S_x, "kwargs", PyStr(<<"K">>)) >>)

C4_Witness ==
    /\ fcall.pc = "returned"
    /\ {S_box, S_x} \subseteq DOMAIN fcall.kwargs
    /\ {S_box, S_x} \subseteq DOMAIN repo.formulas
    /\ \E n \in 1..Len(ResolutionLog) :
            ResolutionLog[n].variable = S_box /\ ResolutionLog[n].source = "reserved"
    /\ \E n \in 1..Len(ResolutionLog) :
            ResolutionLog[n].variable = S_x /\ ResolutionLog[n].source = "kwargs"

\* the family (Drive or Disk) a reserved name belongs to
FamilyOf(variable) == IF variable \in {S_drive, S_box} THEN Drive ELSE Disk

OwnValue(variable) ==
    IF variable = S_box THEN Drive[2].value
    ELSE IF variable = S_config THEN Disk[2].value
    ELSE Disk[3].value

\* C5: a token naming a family's default ('drive', 'disk') or one of its
\* members resolves to the value of the Enum member passed as a kwarg under
\* the family's default name when there is one; without such an override
\* the default name resolves to the family's first member after DEFAULT and
\* a member name resolves to that member's own value.
C5_ReservedOverride ==
    \A n \in 1..Len(ResolutionLog) :
        LET e == ResolutionLog[n]
            default == FamilyOf(e.variable)[1].value
        IN e.variable \in ReservedNames =>
            /\ e.value.t = "str"
            /\ IF default \in DOMAIN fcall.kwargs
                 THEN /\ fcall.kwargs[default].t = "enum"
                      /\ e.value.v = fcall.kwargs[default].v.value
                 ELSE IF e.variable = default
                 THEN e.value.v = FamilyOf(e.variable)[2].value
                 ELSE e.value.v = OwnValue(e.variable)

C5_Witness ==
    /\ fcall.pc = "returned"
    /\ S_disk \in DOMAIN fcall.kwargs
    /\ S_drive \notin DOMAIN fcall.kwargs
    /\ \E n \in 1..Len(ResolutionLog) :
            /\ ResolutionLog[n].variable = S_code
            /\ ResolutionLog[n].value.v # OwnValue(S_code)
    /\ \E n \in 1..Len(ResolutionLog) :
            /\ ResolutionLog[n].variable = S_drive
            /\ ResolutionLog[n].value.v = Drive[2].value

\* a name that is no reserved keyword, no key of kwargs and no formula
UnknownName(variable) ==
    /\ variable \notin ReservedNames
    /\ variable \notin DOMAIN fcall.kwargs
    /\ remove_prefix(repo, variable) \notin DOMAIN repo.formulas

\* C6: eval raises FormulaArgumentError exactly when a |variable| token
\* reached during the evaluation is neither a reserved keyword, nor a key of
\* kwargs, nor the name of a formula of the repo.
C6_ArgumentErrorIffUnknown ==
    fcall.pc # "idle" =>
        ((fcall.outcome.raised /\ fcall.outcome.exc = "FormulaArgumentError")
            <=> \E n \in 1..Len(ResolutionLog) :
                    UnknownName(ResolutionLog[n].variable))



\* ------------------------------------------------------ claims C18, C19

Bars(s) == {k \in 1..Len(s) : s[k] = "|"}
Unbalanced(s) == Cardinality(Bars(s)) % 2 = 1

\* the formula FormulaRepo.eval was asked for, when the repo has it
AskedFormula == remove_prefix(repo, fcall.formula_name)
FormulaAsked == fcall.pc # "idle" /\ AskedFormula \in DOMAIN repo.formulas

\* the strings that were substituted for a variable during the call
SubstitutedStrings ==
    {ResolutionLog[n].value.v :
        n \in {k \in 1..Len(ResolutionLog) : ResolutionLog[k].value.t = "str"}}

\* every string the call can come to evaluate
RepoStrings ==
    {repo.formulas[f] : f \in DOMAIN repo.formulas}
        \cup {fcall.kwargs[k].v :
                k \in {j \in DOMAIN fcall.kwargs : fcall.kwargs[j].t = "str"}}
        \cup {fcall.kwargs[k].v.value :
                k \in {j \in DOMAIN fcall.kwargs : fcall.kwargs[j].t = "enum"}}

\* C18 as stated: a returned string contains no '|', and a formula or a
\* substituted value with an unbalanced '|' makes eval raise
\* FormulaEvaluationError.
C18_ResolvedOrEvaluationError ==
    FormulaAsked =>
        /\ fcall.pc = "returned" =>
                fcall.outcome.val.t = "str" /\ Bars(fcall.outcome.val.v) = {}
        /\ (\E s \in {repo.formulas[AskedFormula]} \cup SubstitutedStrings :
                Unbalanced(s))
             => (fcall.outcome.raised
                    /\ fcall.outcome.exc = "FormulaEvaluationError")

\* C18, amended: a returned value is a string without '|', and eval returns
\* only when the formula and every substituted value have balanced bars;
\* with an unbalanced one eval raises, FormulaEvaluationError unless another
\* exception comes first, and FormulaEvaluationError is raised for no other
\* reason than an unbalanced string.
C18_ReturnedIsResolved ==
    FormulaAsked =>
        /\ fcall.pc = "returned" =>
                /\ fcall.outcome.val.t = "str"
                /\ Bars(fcall.outcome.val.v) = {}
                /\ \A s \in {repo.formulas[AskedFormula]} \cup SubstitutedStrings :
                        ~Unbalanced(s)
        /\ (fcall.outcome.raised /\ fcall.outcome.exc = "FormulaEvaluationError")
                => \E s \in RepoStrings : Unbalanced(s)

\* a kwarg value that names a formula is evaluated again before it is used
C18_Witness ==
    /\ fcall.pc = "returned"
    /\ fcall.outcome.val = PyStr(<<"G">>)
    /\ \E n \in 1..Len(ResolutionLog) :
            /\ ResolutionLog[n].source = "kwargs"
            /\ ResolutionLog[n].value = PyStr(Token(S_g))

FormulaExceptions ==
    {"FormulaNotFoundError", "FormulaArgumentError", "FormulaDuplicateError",
     "FormulaEvaluationError"}

\* the drive and disk overrides of the call are Enum members, as
\* try_to_resolve reads them
OverridesAreMembers ==
    \A k \in DOMAIN fcall.kwargs \cap {S_drive, S_disk} :
        fcall.kwargs[k].t = "enum"

\* C19: every FormulaRepo.eval call ends by returning a string or by raising
\* a FormulaException, cyclic formulas included.
C19_StringOrFormulaException ==
    (fcall.pc # "idle" /\ OverridesAreMembers) =>
        \/ fcall.pc = "returned" /\ fcall.outcome.val.t = "str"
        \/ fcall.outcome.raised /\ fcall.outcome.exc \in FormulaExceptions

\* -------------------------------------------------------- claims C1, C2, C3

CallsOf(id) == {n \in 1..Len(calls) : calls[n].proc = id}

\* what the side-channel error file of a mayabatch process holds at the end
ErrorFileText(p) ==
    IF p.cls = "MayaProcess" /\ p.raised THEN Traceback ELSE <<>>

\* C1: the on_finish callback of a process is invoked at most once, exactly
\* when its finished handler has run (never for a process that has not
\* ended, never without a callback), after is_finished was set, and with a
\* ProcessResult carrying the process's name, executable, args, captured
\* output and errors.
C1_CallbackOnceAfterFinish ==
    \A id \in 1..Len(procs) :
        LET p == procs[id]
        IN /\ Cardinality(CallsOf(id)) <= 1
           /\ p.is_finished <=> p.emitted
           /\ p.on_finish # None => (CallsOf(id) # {} <=> p.emitted)
           /\ p.on_finish = None => CallsOf(id) = {}
           /\ p.os # "exited" => CallsOf(id) = {}
           /\ \A n \in CallsOf(id) :
                /\ calls[n].is_finished
                /\ calls[n].result =
                     ProcessResult(p.name, p.exe, p.args, p.out,
                                   p.err \o ErrorFileText(p))

C1_Witness ==
    /\ Len(calls) = 1
    /\ \E n \in 1..Len(calls) :
            /\ procs[calls[n].proc].cls = "Process"
            /\ calls[n].result =
                 ProcessResult("App", "app.exe", <<"a", <<"-", "k">>, "v">>,
                               <<>>, <<"err">>)
    /\ \E id \in 1..Len(procs) :
            /\ procs[id].cls = "MayaProcess"
            /\ procs[id].os = "exited"
            /\ ~procs[id].is_finished

Running == {id \in 1..Len(procs) : procs[id].os = "running"}

\* C2 as stated: at most one launched subprocess is running at any moment.
C2_AtMostOneRunning == Cardinality(Running) <= 1

\* C2, amended: nothing limits concurrency.  A step launches at most one
\* subprocess, in a Process object of its own, and leaves every subprocess
\* that is already running alone: a running subprocess stays running until
\* it ends by itself.
C2_RunsDoNotInterfere ==
    [][ /\ Cardinality(Running') <= Cardinality(Running) + 1
        /\ \A id \in Running :
            /\ id <= Len(procs')
            /\ procs'[id].os \in {"running", "exited"}
            /\ procs'[id].args = procs[id].args
            /\ procs'[id].on_finish = procs[id].on_finish
        /\ \A id \in Running' \ Running : id = Len(procs') /\ id > Len(procs)
      ]_vars

C2_Witness ==
    /\ Cardinality(Running) >= 2
    /\ \E id \in Running : procs[id].cls = "Process"
    /\ \E id \in Running : procs[id].cls = "MayaProcess"

NotificationsOf(id) ==
    {n \in 1..Len(notifications) : notifications[n].proc = id}

StartedProcesses == {id \in 1..Len(procs) : procs[id].started}

\* C9: publish_animations starts at most max_batches background processes.
C9_AtMostMaxBatchesProcesses ==
    Cardinality(StartedProcesses) <= pub.max_batches

\* the elements of s at the positions in P, in order
RECURSIVE SelectPositions(_, _, _)
SelectPositions(s, P, n) ==
    IF n > Len(s) THEN <<>>
    ELSE (IF n \in P THEN <<s[n]>> ELSE <<>>) \o SelectPositions(s, P, n + 1)

NonEmptyPositions == {n \in 1..Len(pub.paths) : pub.paths[n] # ""}
StartedPositions ==
    {n \in NonEmptyPositions :
        pub.launched[n] # 0 /\ procs[pub.launched[n]].os # "dead"}

InitProcess ==
    /\ OtherIdle
    /\ split = SplitIdle
    /\ repo = RepoIdle
    /\ fcall = FcallIdle
    /\ ProcIdle

NextProcess ==
    \/ AppRun
    \/ MayaRun
    \/ ProcessExit
    \/ Finish

SpecProcess == InitProcess /\ [][NextProcess]_vars

\* ------------------------------------------- MayabatchExecuter.run, driven
NextMaya ==
    \/ MayaCall
    \/ ProcessExit
    \/ Finish

SpecMaya == InitProcess /\ [][NextMaya]_vars

\* ------------------------------------------------------- claims C13, C14

\* the last run() call was a MayabatchExecuter.run studied alone
LastIsMayaCall == "call" \in DOMAIN ret

\* C13: called with a command (or func) and no path_maya_file, that is with
\* the default None, MayabatchExecuter.run returns the process, and the
\* process was given the -command argument and no -file argument.
C13_MayaFileOptional ==
    (LastIsMayaCall /\ ret.call.path_maya_file = None /\ ret.call.has_command) =>
        /\ ret.t = "tuple"
        /\ Len(procs[ret.process].args) = 2
        /\ procs[ret.process].args[1] = <<"-", "command">>

\* C14: a MayabatchExecuter.run that created its two temporary files and
\* does not end with a started subprocess returns None, and both files
\* have been removed.
C14_NoProcessNoTempFiles ==
    (LastIsMayaCall /\ ret.call.made # {} /\ ret.t # "tuple") =>
        /\ ret.t = "None"
        /\ \A f \in ret.call.made : ~files[f].exists

\* ------------------------------------------------ publish_animations, driven
PathChoices == {"", "a.ma", "b.ma"}

InitPublish ==
    /\ OtherIdle
    /\ split = SplitIdle
    /\ repo = RepoIdle
    /\ fcall = FcallIdle
    /\ procs = <<>>
    /\ PROCESSES = <<>>
    /\ files = <<>>
    /\ calls = <<>>
    /\ notifications = <<>>
    /\ ret = RetNone
    /\ \E paths \in SeqsUpTo(PathChoices, MaxPaths),
          max_batches \in 1..MaxPubBatches :
            pub = PubCalled(paths, max_batches)

NextPublish ==
    \/ PublishStep
    \/ PublishReturn
    \/ ProcessExit
    \/ Finish

SpecPublish == InitPublish /\ [][NextPublish]_vars

\* ----------------------------------------------------- utils.py, versioning
\* Paths are strings (sequences of characters); the scene's directory is the
\* set of the names of the files in it.

\* str.split('.')
RECURSIVE split_dot(_)
split_dot(s) ==
    LET dots == {k \in 1..Len(s) : s[k] = "."}
    IN IF dots = {} THEN <<s>>
       ELSE LET d == CHOOSE k \in dots : \A j \in dots : k <= j
            IN <<SubSeq(s, 1, d - 1)>> \o split_dot(SubSeq(s, d + 1, Len(s)))

\* '.'.join(segments)
RECURSIVE join_dot(_)
join_dot(segments) ==
    IF segments = <<>> THEN <<>>
    ELSE IF Len(segments) = 1 THEN segments[1]
    ELSE segments[1] \o <<".">> \o join_dot(Tail(segments))

DigitChars == <<"0","1","2","3","4","5","6","7","8","9">>
IsDigit(c) == \E k \in 1..Len(DigitChars) : DigitChars[k] = c
DigitValue(c) == (CHOOSE k \in 1..Len(DigitChars) : DigitChars[k] = c) - 1

RECURSIVE digits_value(_)
digits_value(s) ==
    IF s = <<>> THEN 0
    ELSE digits_value(SubSeq(s, 1, Len(s) - 1)) * 10 + DigitValue(s[Len(s)])

\* the text int(s) parses, over the characters the model's names use: an
\* optional sign, then digits
Unsigned(s) == IF s # <<>> /\ s[1] \in {"-", "+"} THEN Tail(s) ELSE s
is_int(s) == Unsigned(s) # <<>> /\ \A k \in 1..Len(Unsigned(s)) : IsDigit(Unsigned(s)[k])

\* int(s) for such a text
int_of(s) ==
    IF s[1] = "-" THEN 0 - digits_value(Unsigned(s)) ELSE digits_value(Unsigned(s))

\* str(n) for n >= 0
RECURSIVE str_nat(_)
str_nat(n) ==
    IF n < 10 THEN <<DigitChars[n + 1]>>
    ELSE str_nat(n \div 10) \o <<DigitChars[(n % 10) + 1]>>

RECURSIVE zfill(_, _)
zfill(s, width) == IF Len(s) >= width THEN s ELSE zfill(<<"0">> \o s, width)

\* f'{version:04}': zero-padded to a width of 4, the sign counted in
format_04(version) ==
    IF version < 0 THEN <<"-">> \o zfill(str_nat(0 - version), 3)
    ELSE zfill(str_nat(version), 4)

S_active == <<"a","c","t","i","v","e">>

\* a list without its second-to-last element: path_split[:-2] + path_split[-1:]
drop_second_to_last(path_split) ==
    SubSeq(path_split, 1, Len(path_split) - 2) \o <<path_split[Len(path_split)]>>

\* path_split.insert(-1, segment)
insert_before_last(path_split, segment) ==
    SubSeq(path_split, 1, Len(path_split) - 1) \o <<segment>>
        \o <<path_split[Len(path_split)]>>

increment_version_path_keep_segment(path, delta) ==
    LET path_split == split_dot(path)
    IN IF Len(path_split) <= 1 THEN PyNone
       ELSE LET versioned == Len(path_split) > 2
                                /\ is_int(path_split[Len(path_split) - 1])
                version == IF versioned
                             THEN int_of(path_split[Len(path_split) - 1]) + delta
                             ELSE 1
            IN PyStr(join_dot(insert_before_last(path_split, format_04(version))))

\* increment_version_path (utils.py:72-89)
increment_version_path(path, delta) ==
    LET path_split == split_dot(path)
    IN IF Len(path_split) <= 1 THEN PyNone
       ELSE LET versioned == Len(path_split) > 2
                                /\ is_int(path_split[Len(path_split) - 1])
                active == Len(path_split) > 2 /\ ~versioned
                                /\ path_split[Len(path_split) - 1] = S_active
                version == IF versioned
                             THEN int_of(path_split[Len(path_split) - 1]) + delta
                             ELSE 1
                path_split1 == IF versioned \/ active
                                 THEN drop_second_to_last(path_split)
                                 ELSE path_split
            IN PyStr(join_dot(insert_before_last(path_split1, format_04(version))))

PyInt(n) == [t |-> "int", v |-> n]

\* get_version (utils.py:92-103)
get_version(path) ==
    LET path_split == split_dot(path)
    IN IF Len(path_split) <= 1 THEN PyNone
       ELSE IF Len(path_split) > 2 /\ is_int(path_split[Len(path_split) - 1])
         THEN PyInt(int_of(path_split[Len(path_split) - 1]))
       ELSE PyNone

\* get_versions (utils.py:106-128) over the files of the path's directory:
\* the (entry.path, version) pairs, as a set (os.scandir fixes no order)
get_versions(path, dir) ==
    IF Len(split_dot(path)) <= 1 THEN {}
    ELSE {<<name, get_version(name).v>> :
            name \in {n \in dir : get_version(n).t = "int"}}

\* get_latest_version (utils.py:131-140): the entries the loop can end on, one
\* per scan order: an entry of the highest version
get_latest_version(path, dir) ==
    LET versions == get_versions(path, dir)
    IN IF versions = {} THEN {PyNone}
       ELSE {PyStr(v[1]) : v \in {w \in versions : \A u \in versions : u[2] <= w[2]}}

\* get_active_path (utils.py:143-157)
get_active_path(path) ==
    LET path_split == split_dot(path)
    IN IF Len(path_split) <= 1 THEN PyNone
       ELSE PyStr(join_dot(insert_before_last(
                IF Len(path_split) > 2 THEN drop_second_to_last(path_split)
                                       ELSE path_split,
                S_active)))

\* ---- increment_version_path, driven: one call per path and delta
S_s == <<"s">>
S_t == <<"t">>
S_ma == <<"m","a">>
SegmentChoices ==
    {S_s, S_ma, S_active, <<"0","0","0","7">>, <<"9","9","9","9">>, <<"1","2">>,
     <<"-","3">>}
DeltaChoices == {1, 2}

InitIncrement ==
    /\ split = SplitIdle
    /\ repo = RepoIdle
    /\ fcall = FcallIdle
    /\ ProcIdle
    /\ menu = MenuIdle
    /\ bg = BgIdle
    /\ \E segments \in SeqsUpTo(SegmentChoices, MaxSegments), delta \in DeltaChoices :
            /\ segments # <<>>
            /\ ver = [pc |-> "called", path |-> join_dot(segments), delta |-> delta,
                      result |-> PyNone]

\* increment_version_path(path, delta)
IncrementVersionPath ==
    /\ ver.pc = "called"
    /\ ver' = [ver EXCEPT !.pc = "returned",
                          !.result = increment_version_path(ver.path, ver.delta)]
    /\ UNCHANGED <<splitVars, formulaVars, procVars, menu, bg>>

NextIncrement == IncrementVersionPath

SpecIncrement == InitIncrement /\ [][NextIncrement]_vars

\* ------------------------------------------------------------- claim C16

\* the dot-separated segments of the path given and of the path returned
GivenSegments == split_dot(ver.path)
ReturnedSegments == split_dot(ver.result.v)

\* the second-to-last segment of the given path is an integer
GivenIsVersioned ==
    Len(GivenSegments) > 2 /\ is_int(GivenSegments[Len(GivenSegments) - 1])
GivenIsActive ==
    Len(GivenSegments) > 2 /\ GivenSegments[Len(GivenSegments) - 1] = S_active

\* the version the result should carry, and the segments of the base name
NewVersion ==
    IF GivenIsVersioned
      THEN int_of(GivenSegments[Len(GivenSegments) - 1]) + ver.delta
      ELSE 1
BaseSegments ==
    IF GivenIsVersioned \/ GivenIsActive
      THEN SubSeq(GivenSegments, 1, Len(GivenSegments) - 2)
      ELSE SubSeq(GivenSegments, 1, Len(GivenSegments) - 1)

\* the result is the base name, the new version on 4 digits, the extension
ResultIsVersioned ==
    /\ ver.result.t = "str"
    /\ Len(ReturnedSegments) = Len(BaseSegments) + 2
    /\ SubSeq(ReturnedSegments, 1, Len(BaseSegments)) = BaseSegments
    /\ ReturnedSegments[Len(ReturnedSegments) - 1] = format_04(NewVersion)
    /\ (NewVersion \in 0..9999 =>
            /\ Len(ReturnedSegments[Len(ReturnedSegments) - 1]) = 4
            /\ \A k \in 1..4 : IsDigit(ReturnedSegments[Len(ReturnedSegments) - 1][k]))
    /\ ReturnedSegments[Len(ReturnedSegments)] = GivenSegments[Len(GivenSegments)]
    /\ get_version(ver.result.v) = PyInt(NewVersion)

N_s_ma == join_dot(<<S_s, S_ma>>)
N_s_active == join_dot(<<S_s, S_active, S_ma>>)
N_s_0001 == join_dot(<<S_s, <<"0","0","0","1">>, S_ma>>)
N_s_0002 == join_dot(<<S_s, <<"0","0","0","2">>, S_ma>>)
N_t_0002 == join_dot(<<S_t, <<"0","0","0","2">>, S_ma>>)
N_t_0003 == join_dot(<<S_t, <<"0","0","0","3">>, S_ma>>)

\* the files a scene directory can hold at the start, and the open scene:
\* '' for a scene never saved, else the name of a file of the directory
DirChoices == SUBSET {N_s_ma, N_s_active, N_s_0001, N_s_0002, N_t_0002, N_t_0003}
SceneChoices == {<<>>, N_s_ma, N_s_active, N_s_0002}

NoCall == [ret |-> None]

InitVersionFile ==
    /\ split = SplitIdle
    /\ repo = RepoIdle
    /\ fcall = FcallIdle
    /\ ProcIdle
    /\ menu = MenuIdle
    /\ bg = BgIdle
    /\ \E dir \in DirChoices, scene \in SceneChoices :
            /\ scene # <<>> => scene \in dir
            /\ ver = [pc |-> "ready", scene |-> scene, dir |-> dir, n |-> 0,
                      last |-> NoCall]

\* version_file() (utils.py:160-184): cmds.file(rename=path_active) and the
\* saves leave the active file on disk and open; shutil.copy makes or
\* overwrites the version file
version_file ==
    /\ ver.pc = "ready"
    /\ ver.n < MaxVersionCalls
    /\ IF ver.scene = <<>>
         THEN ver' = [ver EXCEPT !.n = @ + 1, !.last = NoCall]
         ELSE \E latest \in get_latest_version(ver.scene, ver.dir) :
                LET path_active == get_active_path(ver.scene)
                    path_version ==
                        increment_version_path(
                            IF Truthy(latest) THEN latest.v ELSE path_active.v, 1)
                IN ver' = [ver EXCEPT
                            !.n = @ + 1,
                            !.scene = path_active.v,
                            !.dir = @ \cup {path_active.v, path_version.v},
                            !.last = [ret |-> "True",
                                      scene |-> ver.scene,
                                      before |-> ver.dir,
                                      path_active |-> path_active.v,
                                      path_version |-> path_version.v]]
    /\ UNCHANGED <<splitVars, formulaVars, procVars, menu, bg>>

NextVersionFile == version_file

SpecVersionFile == InitVersionFile /\ [][NextVersionFile]_vars

\* ------------------------------------------------------------- claim C17

\* a file name without its version or 'active' segment: what names a scene
SceneKey(name) ==
    LET segments == split_dot(name)
    IN IF Len(segments) > 2
            /\ (is_int(segments[Len(segments) - 1])
                    \/ segments[Len(segments) - 1] = S_active)
         THEN drop_second_to_last(segments)
         ELSE segments

\* the version numbers the scene of the last call had before the call
OwnVersions ==
    {get_version(name).v :
        name \in {f \in ver.last.before :
                    get_version(f).t = "int"
                        /\ SceneKey(f) = SceneKey(ver.last.scene)}}

HighestOwnVersion ==
    IF OwnVersions = {} THEN 0
    ELSE CHOOSE v \in OwnVersions : \A u \in OwnVersions : u <= v

\* C17: a version_file call on a saved scene copies the active file to the
\* version file of that scene numbered one more than the highest version
\* the scene had before the call (0001 when it had none), a file that did
\* not exist before.
C17_NextVersionOfScene ==
    (ver.pc = "ready" /\ ver.last.ret = "True") =>
        /\ ver.last.path_version =
                join_dot(insert_before_last(SceneKey(ver.last.scene),
                                            format_04(HighestOwnVersion + 1)))
        /\ ver.last.path_version \notin ver.last.before
        /\ ver.last.path_version \in ver.dir
        /\ ver.last.path_active \in ver.dir

\* --------------------------------------------------------- menu.py, create_menu
MENU_NAME == <<"H","a","y","m","a","k","e","r">>
L_File == <<"F","i","l","e">>
L_haymaker == <<"h","a","y","m","a","k","e","r">>
L_Edit == <<"E","d","i","t">>
gMainWindow == "MayaWindow"

\* what cmds.menu(item, label=1, query=True) does for a control that lsUI
\* lists and that is not a menu any more: it raises RuntimeError
NoLabel == [t |-> "raise", v |-> "RuntimeError"]

\* a menu of the UI: its control name (Maya numbers the menus it names
\* itself: menu1, menu2), the window it hangs in, its label
\* (or NoLabel) and whether it holds items
UiMenu(name, parent, label, items) ==
    [name |-> name, parent |-> parent, label |-> label, items |-> items]

\* Maya's own File menu is always there; the others may or may not be
FileMenu == UiMenu(<<"mainFileMenu", 0>>, gMainWindow, PyStr(L_File), TRUE)
MenuChoices ==
    {UiMenu(<<"old1", 0>>, gMainWindow, PyStr(MENU_NAME), TRUE),
     UiMenu(<<"old2", 0>>, gMainWindow, PyStr(MENU_NAME), FALSE),
     UiMenu(<<"panelMenu", 0>>, "scriptEditorPanel1Window", PyStr(MENU_NAME), TRUE),
     UiMenu(<<"mainEditMenu", 0>>, gMainWindow, PyStr(L_Edit), TRUE),
     UiMenu(<<"lowerMenu", 0>>, gMainWindow, PyStr(L_haymaker), TRUE),
     UiMenu(<<"staleMenu", 0>>, gMainWindow, NoLabel, FALSE)}

\* a loop that deletes nothing, to compare delete_previous with
delete_previous_none(ui) == ui

\* lines 44-52: every listed menu whose label can be queried and equals
\* MENU_NAME loses its items and is deleted
delete_previous(ui) ==
    {item \in ui : ~(item.label.t = "str" /\ item.label.v = MENU_NAME)}

\* lines 55-61: the new menu under the main window, then its items
make_menu(ui, n) ==
    ui \cup {UiMenu(<<"menu", n>>, gMainWindow, PyStr(MENU_NAME), TRUE)}

InitMenu ==
    /\ split = SplitIdle
    /\ repo = RepoIdle
    /\ fcall = FcallIdle
    /\ ProcIdle
    /\ ver = VerIdle
    /\ bg = BgIdle
    /\ \E present \in SUBSET MenuChoices :
            menu = [pc |-> "ready", ui |-> {FileMenu} \cup present, n |-> 0,
                    before |-> {}]

\* create_menu() (menu.py:39-61)
create_menu ==
    /\ menu.pc = "ready"
    /\ menu.n < MaxMenuCalls
    /\ menu' = [menu EXCEPT
                    !.n = @ + 1,
                    !.before = menu.ui,
                    !.ui = make_menu(delete_previous(menu.ui), menu.n + 1)]
    /\ UNCHANGED <<splitVars, formulaVars, procVars, ver, bg>>

NextMenu == create_menu

SpecMenu == InitMenu /\ [][NextMenu]_vars

\* ------------------------------------------------------------- claim C15

Labelled(ui, label) == {item \in ui : item.label = PyStr(label)}

MenuCalled == menu.pc = "ready" /\ menu.n > 0

\* C15: after a create_menu call the main window holds exactly one menu
\* labelled 'Haymaker', no menu with that label is left anywhere else, the
\* menus labelled 'Haymaker' before the call are gone, and every menu with
\* another label (or with no label to query) is as it was before the call.
C15_ExactlyOneMenu ==
    MenuCalled =>
        /\ Cardinality({item \in Labelled(menu.ui, MENU_NAME) :
                            item.parent = gMainWindow}) = 1
        /\ Cardinality(Labelled(menu.ui, MENU_NAME)) = 1
        /\ Labelled(menu.ui, MENU_NAME) \cap menu.before = {}
        /\ menu.ui \ Labelled(menu.ui, MENU_NAME)
                = menu.before \ Labelled(menu.before, MENU_NAME)

C15_Witness ==
    /\ MenuCalled
    /\ menu.n = MaxMenuCalls
    /\ Cardinality(Labelled(menu.before, MENU_NAME)) = 1
    /\ \E item \in menu.before : item.label = NoLabel
    /\ \E item \in menu.before : item.label = PyStr(L_haymaker)

\* ----------------------------------- publisher.py, publish_animation on disk
\* A path is a pair (or NoPath, the false value of a path: None or ''):
\* the work file, a file tempfile.mkstemp made (with its
\* place in files), or <name>.ma in the version directory of a number.
NoPath == <<>>
WorkPath == <<"work", 0>>
TmpPath(n) == <<"tmp", n>>
FinalPath(version) == <<"final", version>>

\* format(version, '03')
format_03(version) == zfill(str_nat(version), 3)

\* an entry of os.scandir(dir_publish)
Entry(name, is_dir) == [name |-> name, is_dir |-> is_dir]

max_version_zero(listing) == 0

\* lines 119-130: the highest int(entry.name) among the sub-directories,
\* 0 when none is above 0
max_version(listing) ==
    LET found == {int_of(entry.name) :
                    entry \in {e \in listing : e.is_dir /\ is_int(e.name)}}
                    \cup {0}
    IN CHOOSE v \in found : \A u \in found : u <= v

\* what a scene file holds, as far as publishing goes: the edit it was saved
\* at, whether the non-camera transforms are still there, and the reference
\* nodes; exists is whether the file is on disk
Scene(rev, refs) ==
    [exists |-> TRUE, rev |-> rev, stripped |-> FALSE, refs |-> refs]

\* handing mayabatch the work file itself, to compare maya_file with
maya_file_is_work(path_work, path_copy) == path_work

\* line 144: the file handed to mayabatch is the copy
maya_file(path_work, path_copy) == path_copy

\* publish_animation (publisher.py:92-162) on the disk b and the process
\* world w: the open scene saved when no path is given, the temporary copy,
\* the next version directory with its log.txt, then MayabatchExecuter.run
\* on the copy. Gives the disk and the world after the call and what the
\* call returns.
publish_animation_disk(b, w, path_work, env) ==
    LET given == path_work # NoPath
        \* lines 101-103
        b1 == IF ~given /\ b.open = WorkPath
                THEN [b EXCEPT !.work = [@ EXCEPT !.rev = b.edits]]
                ELSE b
        path_work1 == IF given THEN path_work ELSE b.open
    IN IF path_work1 = NoPath
         THEN [b |-> b1, w |-> w, ret |-> RetNone, launched |-> FALSE]
       ELSE
        LET \* lines 112-114
            path_copy == TmpPath(Len(w.files) + 1)
            w1 == [w EXCEPT !.files = Append(@, TempFile("ma", b1.work))]
            \* lines 117-133
            version == max_version(b1.listing) + 1
            name == format_03(version)
            py_cmd == <<"_bg_publish_animation", FinalPath(version)>>
            r == MayabatchExecuter_run(w1,
                    Executer("MayabatchExecuter", "Publish - Animation",
                             "mayabatch.exe", None),
                    "notify_system", maya_file(path_work1, path_copy), py_cmd,
                    <<>>, <<>>, <<>>, env)
            started == r.ret.t = "tuple"
            b2 == [b1 EXCEPT
                    !.listing = @ \cup {Entry(name, TRUE)},
                    !.path_work = path_work1,
                    !.work0 = b1.work,
                    !.dirs = Append(@,
                        [version |-> version, name |-> name,
                         before |-> b1.listing,
                         work0 |-> b1.work,
                         log |-> IF r.ret.t = "raise" THEN <<"Preparing">>
                                 ELSE IF started THEN <<"Preparing", "Started">>
                                 ELSE <<"Preparing", "Failed">>,
                         final |-> <<>>,
                         process |-> IF started THEN r.ret.process ELSE 0])]
        IN [b |-> b2, w |-> r.w,
            ret |-> IF r.ret.t = "raise" THEN r.ret
                    ELSE IF started THEN [t |-> "True"] ELSE [t |-> "False"],
            launched |-> started]

\* ---- the scene mayabatch has open and _bg_publish_animation
\* short stand-ins for ~/Box/Capstone_Uploads/04_Rigging and for files in
\* it, beside it and elsewhere
path_rigging == <<"/","r">>
P_rig == <<"/","r","/","a">>
P_beside == <<"/","r","2","/","a">>
P_set == <<"/","s","/","a">>

\* a reference node: the file it points to (<<>> for a node without one),
\* the reference node it is nested in (0 at the top level), whether it is
\* loaded, and whether it is still a reference ("ref"), was imported or
\* was removed
RefNode(file, parent, loaded) ==
    [file |-> file, parent |-> parent, loaded |-> loaded, state |-> "ref"]

\* cmds.referenceQuery(node, filename=True) raises RuntimeError
no_file(refs, node) == refs[node].state # "ref" \/ refs[node].file = <<>>

\* cmds.referenceQuery(node, referenceNode=True, parent=True)
is_child(refs, node) == refs[node].parent # 0

is_rig_never(path) == FALSE

\* line 201
is_rig(path) == startswith(path, path_rigging)

RECURSIVE nested_in(_, _, _)
nested_in(refs, node, ancestor) ==
    /\ refs[node].parent # 0
    /\ \/ refs[node].parent = ancestor
       \/ nested_in(refs, refs[node].parent, ancestor)

\* cmds.file(path, importReference=True): the contents join the scene and
\* the references nested right under it become top-level references
importReference(refs, node) ==
    [k \in DOMAIN refs |->
        IF k = node THEN [refs[k] EXCEPT !.state = "imported"]
        ELSE IF refs[k].parent = node THEN [refs[k] EXCEPT !.parent = 0]
        ELSE refs[k]]

\* cmds.file(path, removeReference=True): the reference goes, with
\* everything nested in it
removeReference(refs, node) ==
    [k \in DOMAIN refs |->
        IF k = node \/ nested_in(refs, k, node)
          THEN [refs[k] EXCEPT !.state = "removed"]
          ELSE refs[k]]

\* one turn of the loop over cmds.ls(references=True) (lines 186-212):
\* the call made on cmds.file, if any, and the references afterwards
visit_reference(refs, node) ==
    IF no_file(refs, node) THEN [call |-> "continue_nofile", refs |-> refs]
    ELSE IF is_child(refs, node) THEN [call |-> "continue_child", refs |-> refs]
    ELSE IF refs[node].loaded /\ is_rig(refs[node].file)
      THEN [call |-> "importReference", refs |-> importReference(refs, node)]
    ELSE [call |-> "removeReference", refs |-> removeReference(refs, node)]

\* the scenes a work file can hold: up to MaxRefs reference nodes, a nested
\* one always under a loaded reference to a file
WellNested(refs) ==
    \A k \in DOMAIN refs :
        refs[k].parent # 0 =>
            /\ refs[k].parent < k
            /\ refs[k].file # <<>>
            /\ refs[refs[k].parent].file # <<>>
            /\ refs[refs[k].parent].loaded

SceneRefs ==
    {refs \in UNION {[1..n -> [file : {<<>>, P_rig, P_beside, P_set},
                               parent : 0..(MaxRefs - 1),
                               loaded : BOOLEAN, state : {"ref"}]] :
                        n \in 0..MaxRefs} :
        /\ WellNested(refs)
        /\ \A k \in DOMAIN refs : refs[k].file = <<>> => ~refs[k].loaded}

\* the orders cmds.ls(references=True) can list the nodes in
Orders(refs) ==
    {order \in [DOMAIN refs -> DOMAIN refs] :
        \A i, j \in DOMAIN refs : i # j => order[i] # order[j]}

\* ---- publish_animation and the background publish, driven
D_001 == <<"0","0","1">>
D_002 == <<"0","0","2">>
D_7 == <<"7">>
D_v1 == <<"v","1">>
F_100 == <<"1","0","0">>
F_log == <<"l","o","g">>

\* what the scene's publish folder can hold at the start
ListingChoices ==
    {dirs \cup fs :
        dirs \in SUBSET {Entry(D_001, TRUE), Entry(D_002, TRUE), Entry(D_7, TRUE),
                         Entry(D_v1, TRUE)},
        fs \in SUBSET {Entry(F_100, FALSE), Entry(F_log, FALSE)}}

NoBatch == [file |-> NoPath]

BgStart(open, edits, refs, listing) ==
    [pc |-> "ready", n |-> 0, open |-> open, edits |-> edits,
     work |-> Scene(0, refs), listing |-> listing,
     path_work |-> NoPath, work0 |-> Scene(0, refs), dirs |-> <<>>,
     batch |-> NoBatch]

\* the environments of a publish: the copy was just made, so it exists
PublishEnvs ==
    {env \in Envs : env.maya_file_exists /\ (env.on_path => env.fallback_exists)}

InitPublishDirs ==
    /\ split = SplitIdle
    /\ repo = RepoIdle
    /\ fcall = FcallIdle
    /\ ProcIdle
    /\ ver = VerIdle
    /\ menu = MenuIdle
    /\ \E listing \in ListingChoices, open \in {NoPath, WorkPath} :
            bg = BgStart(open, 0, <<>>, listing)

\* publish_animation(path_work), looked at for its version directories
PublishAnimation ==
    /\ bg.pc = "ready"
    /\ bg.n < MaxPublishCalls
    /\ \E path_work \in {NoPath, WorkPath}, env \in PublishEnvs :
        LET r == publish_animation_disk(bg, TheWorld, path_work, env)
        IN /\ SetWorld(r)
           /\ bg' = [r.b EXCEPT !.n = @ + 1]
    /\ UNCHANGED <<splitVars, formulaVars, calls, notifications, pub, ver, menu>>

NextPublishDirs == PublishAnimation

SpecPublishDirs == InitPublishDirs /\ [][NextPublishDirs]_vars

\* the file mayabatch was told to open: the value after -file
opened_file(p) == p.args[2]

\* the scene read from a path
read_scene(b, fs, path) == IF path[1] = "tmp" THEN fs[path[2]].content ELSE b.work

InitBgPublish ==
    /\ split = SplitIdle
    /\ repo = RepoIdle
    /\ fcall = FcallIdle
    /\ ProcIdle
    /\ ver = VerIdle
    /\ menu = MenuIdle
    /\ \E refs \in SceneRefs, open \in {NoPath, WorkPath}, edits \in {0, 1} :
            /\ open = NoPath => edits = 0
            /\ bg = BgStart(open, edits, refs, {Entry(D_001, TRUE)})

\* the first publish_animation(path_work) of the session, then mayabatch
\* opens the file it was given and starts _bg_publish_animation(path_final)
PublishAndOpen ==
    /\ bg.pc = "ready"
    /\ bg.n = 0
    /\ \E path_work \in {NoPath, WorkPath}, env \in PublishEnvs :
        LET r == publish_animation_disk(bg, TheWorld, path_work, env)
            p == r.w.procs[Len(r.w.procs)]
        IN /\ SetWorld(r)
           /\ bg' = IF r.launched
                      THEN [r.b EXCEPT
                              !.n = @ + 1,
                              !.pc = "strip",
                              !.batch = [file |-> opened_file(p),
                                         scene |-> read_scene(r.b, r.w.files,
                                                              opened_file(p)),
                                         run |-> Len(r.b.dirs),
                                         order |-> <<>>, i |-> 0, calls |-> <<>>]]
                      ELSE [r.b EXCEPT !.n = @ + 1]
    /\ UNCHANGED <<splitVars, formulaVars, calls, notifications, pub, ver, menu>>

\* lines 173-182: everything but the references and the user's cameras is
\* deleted; line 186: cmds.ls(references=True), in the order Maya lists them
BgStrip ==
    /\ bg.pc = "strip"
    /\ \E order \in Orders(bg.batch.scene.refs) :
        bg' = [bg EXCEPT
                !.pc = "refs",
                !.batch.scene.stripped = TRUE,
                !.batch.order = order,
                !.dirs[bg.batch.run].log = Append(@, "Stripped")]
    /\ UNCHANGED <<splitVars, formulaVars, procVars, ver, menu>>

\* lines 186-212: one turn of the loop
BgVisit ==
    /\ bg.pc = "refs"
    /\ bg.batch.i < Len(bg.batch.order)
    /\ LET node == bg.batch.order[bg.batch.i + 1]
           v == visit_reference(bg.batch.scene.refs, node)
       IN bg' = [bg EXCEPT
                    !.batch.i = @ + 1,
                    !.batch.scene.refs = v.refs,
                    !.batch.calls = Append(@,
                        [node |-> node, call |-> v.call,
                         was |-> bg.batch.scene.refs[node]])]
    /\ UNCHANGED <<splitVars, formulaVars, procVars, ver, menu>>

\* lines 213-218: the scene is renamed to path_publish and saved
BgSave ==
    /\ bg.pc = "refs"
    /\ bg.batch.i = Len(bg.batch.order)
    /\ bg' = [bg EXCEPT
                !.pc = "remove",
                !.dirs[bg.batch.run].final = <<bg.batch.scene>>,
                !.dirs[bg.batch.run].log = Append(@, "Filtered")]
    /\ UNCHANGED <<splitVars, formulaVars, procVars, ver, menu>>

\* lines 216, 219-220: os.remove(path_temp), the path the scene had when
\* mayabatch opened it
BgRemove ==
    /\ bg.pc = "remove"
    /\ LET path_temp == bg.batch.file
       IN /\ bg' = [bg EXCEPT
                      !.pc = "ready",
                      !.work.exists = IF path_temp = WorkPath THEN FALSE ELSE @,
                      !.dirs[bg.batch.run].log = Append(@, "Moved")]
          /\ files' = IF path_temp[1] = "tmp"
                        THEN remove_if_file(files, path_temp[2])
                        ELSE files
    /\ UNCHANGED <<splitVars, formulaVars, procs, PROCESSES, calls, notifications,
                   ret, pub, ver, menu>>

NextBgPublish == PublishAndOpen \/ BgStrip \/ BgVisit \/ BgSave \/ BgRemove

SpecBgPublish == InitBgPublish /\ [][NextBgPublish]_vars

\* ------------------------------------------------------------- claim C12

IntDirs(listing) ==
    {int_of(e.name) : e \in {x \in listing : x.is_dir /\ is_int(x.name)}}

BatchOpened == bg.batch.file # NoPath

FileCalls(node) ==
    {i \in 1..Len(bg.batch.calls) :
        /\ bg.batch.calls[i].node = node
        /\ bg.batch.calls[i].call \in {"importReference", "removeReference"}}

LoopDone == BatchOpened /\ bg.pc \in {"remove", "ready"}

\* a file inside the rigging folder: the folder's path, a separator, more
under_rigging(path) == startswith(path, path_rigging \o <<"/">>)

\* a path that begins with the characters of the rigging folder's path
has_rigging_prefix(path) ==
    \E k \in 0..Len(path) : SubSeq(path, 1, k) = path_rigging

\* what C20 says of a run, for a given reading of "a rigging file"
HandledOnce(node, rig) ==
    LET start == bg.work0.refs[node]
        now == bg.batch.scene.refs[node]
    IN /\ Cardinality(FileCalls(node)) = 1
       /\ \A i \in FileCalls(node) :
            bg.batch.calls[i].call =
                IF start.loaded /\ rig THEN "importReference"
                ELSE "removeReference"
       /\ now.state = IF start.loaded /\ rig THEN "imported" ELSE "removed"

OnlyTopLevelWithFile ==
    BatchOpened =>
        /\ \A i \in 1..Len(bg.batch.calls) :
            bg.batch.calls[i].call \in {"importReference", "removeReference"} =>
                /\ bg.batch.calls[i].was.parent = 0
                /\ bg.batch.calls[i].was.file # <<>>
        /\ \A node \in DOMAIN bg.work0.refs :
            bg.work0.refs[node].file = <<>> =>
                /\ FileCalls(node) = {}
                /\ bg.batch.scene.refs[node] = bg.work0.refs[node]

RemovedAfterSave ==
    (BatchOpened /\ bg.batch.file[1] = "tmp"
            /\ ~files[bg.batch.file[2]].exists) =>
        bg.dirs[bg.batch.run].final = <<bg.batch.scene>>

\* C20 as stated: a top-level reference to a file is imported when it is
\* loaded and its file lies in the rigging folder, and removed otherwise.
C20_ImportedWhenUnderRiggingFolder ==
    /\ LoopDone =>
        \A node \in DOMAIN bg.work0.refs :
            (bg.work0.refs[node].parent = 0 /\ bg.work0.refs[node].file # <<>>) =>
                HandledOnce(node, under_rigging(bg.work0.refs[node].file))
    /\ OnlyTopLevelWithFile
    /\ RemovedAfterSave

\* C20: when the loop of _bg_publish_animation is over, every reference
\* that was at the top level and pointed to a file has been passed to
\* cmds.file exactly once: imported when it was loaded and its path begins
\* with the rigging folder's path, removed otherwise. cmds.file is only ever
\* called on a node that is then at the top level and has a file; a node
\* without a file is as it was. The temporary scene file is gone only once
\* the scene is saved at the publish path.
C20_ImportedWhenPathStartsWithRigging ==
    /\ LoopDone =>
        \A node \in DOMAIN bg.work0.refs :
            (bg.work0.refs[node].parent = 0 /\ bg.work0.refs[node].file # <<>>) =>
                HandledOnce(node, has_rigging_prefix(bg.work0.refs[node].file))
    /\ OnlyTopLevelWithFile
    /\ RemovedAfterSave

C20_Witness ==
    /\ LoopDone
    /\ bg.pc = "ready"
    /\ \E i, j \in 1..Len(bg.batch.calls) :
        /\ bg.batch.calls[i].call = "importReference"
        /\ bg.batch.calls[i].was.file = P_beside
        /\ bg.batch.calls[j].call = "continue_nofile"

\* ---------------------------------------------- split_into_batches, driven
InitSplit ==
    /\ OtherIdle
    /\ repo = RepoIdle
    /\ fcall = FcallIdle
    /\ ProcIdle
    /\ \E items \in SeqsUpTo(SplitItemValues, MaxItems),
       max_batches \in 1..MaxSplitBatches :
        split = SplitCalled(items, max_batches)

NextSplit ==
    \/ SplitEnter
    \/ SplitYieldItem
    \/ SplitReturnEarly
    \/ SplitYieldBatch
    \/ SplitReturn

SpecSplit == InitSplit /\ [][NextSplit]_vars

\* ------------------------------------------------------------ claims C7, C8

BatchSizes == [n \in 1..Len(split.yielded) |-> Len(split.yielded[n])]

\* C7: for every list and every max_batches >= 1 the exhausted generator has
\* yielded exactly min(len(items), max_batches) batches, none of them empty,
\* and the batches concatenated in yield order are the list itself.
C7_BatchesPartitionItems ==
    split.pc = "done" =>
        /\ Len(split.yielded) = Min(Len(split.items), split.max_batches)
        /\ \A n \in 1..Len(split.yielded) : split.yielded[n] # <<>>
        /\ Concat(split.yielded) = split.items

C7_Witness ==
    /\ split.pc = "done"
    /\ Len(split.items) > split.max_batches
    /\ Len(split.items) % split.max_batches # 0
    /\ split.max_batches > 1
    /\ Len(split.yielded) = split.max_batches

\* C8: the sizes of any two yielded batches differ by at most one, and every
\* batch of the larger size is yielded before every batch of the smaller
\* size (sizes never increase along the yield order).
C8_BatchesEven ==
    /\ \A m, n \in 1..Len(split.yielded) :
            /\ BatchSizes[m] - BatchSizes[n] <= 1
            /\ (m < n) => BatchSizes[m] >= BatchSizes[n]

C8_Witness ==
    /\ split.pc = "done"
    /\ \E m, n \in 1..Len(split.yielded) :
            m < n /\ BatchSizes[m] = BatchSizes[n] + 1
    /\ \E m, n \in 1..Len(split.yielded) :
            m < n /\ BatchSizes[m] = BatchSizes[n] /\ BatchSizes[m] > 1

====
